---- MODULE Spec2Model ----
(***************************************************************************)
(* Model of the two district waste dashboards:                             *)
(*   - the map-click dashboard   (src/unnamed/part_000)                     *)
(*   - the dropdown dashboard    (src/app.py)                               *)
(* Each loads the district table once, and then answers selection events   *)
(* with its update_dashboard callback.  Floats are modelled as exact       *)
(* rationals [num, den]; strings that the code lower-cases and strips are  *)
(* modelled as sequences of characters.                                    *)
(***************************************************************************)
EXTENDS Integers, Sequences, FiniteSets, TLC

VARIABLES variant, df, rendered, selection, out, frame, prev

vars == <<variant, df, rendered, selection, out, frame, prev>>

(***************************************************************************)
(* Bounds of the model.                                                    *)
(***************************************************************************)
\* numeric cells of the varied row range over MinVal..MaxVal
MaxVal == 2

---------------------------------------------------------------------------
(***************************************************************************)
(* Floats as exact rationals.                                              *)
(***************************************************************************)
Abs(n) == IF n < 0 THEN -n ELSE n

RECURSIVE Gcd(_, _)
Gcd(a, b) == IF b = 0 THEN a ELSE Gcd(b, a % b)

\* the rational n/d (d # 0) in lowest terms with a positive denominator
Rat(n, d) ==
    LET g == Gcd(Abs(n), Abs(d))
        s == IF d < 0 THEN -1 ELSE 1
    IN  [num |-> (s * n) \div g, den |-> (s * d) \div g]

Float(n) == [num |-> n, den |-> 1]

Zero == Float(0)

RAdd(a, b) == Rat(a.num * b.den + b.num * a.den, a.den * b.den)
RSub(a, b) == Rat(a.num * b.den - b.num * a.den, a.den * b.den)
RMul(a, b) == Rat(a.num * b.num, a.den * b.den)
RDiv(a, b) == Rat(a.num * b.den, a.den * b.num)
RLess(a, b) == a.num * b.den < b.num * a.den
RLeq(a, b) == a.num * b.den <= b.num * a.den

\* Python's max(a, b) and min(a, b): the first argument wins a tie
PyMax(a, b) == IF RLess(a, b) THEN b ELSE a
PyMin(a, b) == IF RLess(b, a) THEN b ELSE a

RECURSIVE MaxOf(_)
MaxOf(s) == IF Len(s) = 1 THEN s[1] ELSE PyMax(s[1], MaxOf(Tail(s)))

\* round(x, k) and format(x, ".kf"): x rounded half-to-even to a multiple
\* of 1/scale, scale = 10^k; the result is the integer count of 1/scale
RoundHalfEven(x, scale) ==
    LET n == x.num * scale
        q == n \div x.den
        r == n % x.den
    IN  IF 2 * r < x.den THEN q
        ELSE IF 2 * r > x.den THEN q + 1
        ELSE IF q % 2 = 0 THEN q ELSE q + 1

\* f"{x:.kf}": the text of x with k decimals
Fmt(x, k) ==
    LET scale == IF k = 0 THEN 1 ELSE IF k = 1 THEN 10 ELSE 100
    IN  [decimals |-> k, digits |-> RoundHalfEven(x, scale)]

\* round(x, k): the float nearest to x with k decimals
Round(x, k) ==
    LET scale == IF k = 0 THEN 1 ELSE IF k = 1 THEN 10 ELSE IF k = 2 THEN 100 ELSE 1000
    IN  Rat(RoundHalfEven(x, scale), scale)

\* int(x): truncation toward zero
PyInt(x) == IF x.num >= 0 THEN x.num \div x.den ELSE -((-x.num) \div x.den)

---------------------------------------------------------------------------
(***************************************************************************)
(* Strings as sequences of characters: str.lower() and str.strip().        *)
(***************************************************************************)
UpperCase == <<"A","B","C","D","E","F","G","H","I","J","K","L","M",
               "N","O","P","Q","R","S","T","U","V","W","X","Y","Z">>
LowerCase == <<"a","b","c","d","e","f","g","h","i","j","k","l","m",
               "n","o","p","q","r","s","t","u","v","w","x","y","z">>
Whitespace == {" ", "\t", "\n"}

LowerChar(c) ==
    IF \E i \in DOMAIN UpperCase : UpperCase[i] = c
    THEN LowerCase[CHOOSE i \in DOMAIN UpperCase : UpperCase[i] = c]
    ELSE c

Lower(s) == [i \in DOMAIN s |-> LowerChar(s[i])]

RECURSIVE LStrip(_)
LStrip(s) ==
    IF s # <<>> /\ Head(s) \in Whitespace THEN LStrip(Tail(s)) ELSE s

RECURSIVE RStrip(_)
RStrip(s) ==
    IF s # <<>> /\ s[Len(s)] \in Whitespace
    THEN RStrip(SubSeq(s, 1, Len(s) - 1)) ELSE s

Strip(s) == RStrip(LStrip(s))

---------------------------------------------------------------------------
(***************************************************************************)
(* The spreadsheet: columns, cells and rows.                               *)
(***************************************************************************)
Census     == "Sum of Census 2011 Population"
SWGen      == "Sum of SW_Generation (TPD)"
SWProc     == "Sum of SW_Processed_ (TPD)"
SWGap      == "Sum of SW Collection Gap (in TPD)"
Sewage     == "Sum of Sewage Generation (in MLD)"
Growth     == "Average of Decadal Grouth Rate in % (During 2001-2011)"
Pop2025    == "Sum of Projected Population by 2025"
Pop2030    == "Sum of Projected Population by 2030"
PW         == "Sum of Estimated PW Generation in TPD"
CD         == "Sum of C&D Waste Generation in TPD - 2025"
EW         == "Sum of e-waste Generation (TPA)"
SWGen2030  == "Sum of SW_Generation (TPD)-2030"
SWProc2030 == "Sum of SW_Processed_ (TPD)-2030"
SWGap2030  == "Sum of SW Collection Gap (in TPD)-2030"

Columns == {Census, SWGen, SWProc, SWGap, Sewage, Growth, Pop2025, Pop2030,
            PW, CD, EW, SWGen2030, SWProc2030, SWGap2030}

\* a cell holds a number, nothing (NaN), or text that is no number
Num(n)  == [k |-> "num", v |-> n]
NaN     == [k |-> "nan", v |-> 0]
Text    == [k |-> "str", v |-> 0]
\* Python's None, the default of row.get(col)
None    == [k |-> "none", v |-> 0]

\* district names of the inputs
Bhopal       == <<"B","h","o","p","a","l">>
BhopalPadded == <<" ","b","h","o","p","a","l"," ">>
Indore       == <<"I","n","d","o","r","e">>
Ujjain       == <<"U","j","j","a","i","n">>
Blank        == <<" "," ">>
\* stands for a District cell that is empty (NaN): no name at all
NoName       == <<"\t","N","a","N">>

Names == {Bhopal, BhopalPadded, Indore, Ujjain}

MinVal == 0 - 1

\* waste composition cells (plastic, C&D, e-waste per year) of the varied row
Compositions == { <<0, 0, 0>>, <<1, 0, 200>>, <<1, 1, 400>> }

\* the varied row with all cells numeric
BaseRows ==
    { [c \in Columns |->
          CASE c = Census     -> Num(1500)
            [] c = SWGen      -> Num(g)
            [] c = SWProc     -> Num(p)
            [] c = SWGap      -> Num(gap)
            [] c = Sewage     -> Num(3)
            [] c = Growth     -> Num(1)
            [] c = Pop2025    -> Num(1800)
            [] c = Pop2030    -> Num(2000)
            [] c = PW         -> Num(w[1])
            [] c = CD         -> Num(w[2])
            [] c = EW         -> Num(w[3])
            [] c = SWGen2030  -> Num(g + 1)
            [] c = SWProc2030 -> Num(p)
            [] c = SWGap2030  -> Num(gap + 1)] :
        g \in MinVal..MaxVal, p \in MinVal..MaxVal, gap \in 0..1,
        w \in Compositions }

\* the second row of the table, always the same
IndoreCells ==
    [c \in Columns |->
        CASE c = Census     -> Num(3000)
          [] c = SWGen      -> Num(4)
          [] c = SWProc     -> Num(3)
          [] c = SWGap      -> Num(1)
          [] c = Sewage     -> Num(5)
          [] c = Growth     -> Num(2)
          [] c = Pop2025    -> Num(3500)
          [] c = Pop2030    -> Num(4000)
          [] c = PW         -> Num(1)
          [] c = CD         -> Num(1)
          [] c = EW         -> Num(365)
          [] c = SWGen2030  -> Num(6)
          [] c = SWProc2030 -> Num(4)
          [] c = SWGap2030  -> Num(2)]

\* one cell of a row replaced
WithCell(cells, col, cell) == [cells EXCEPT ![col] = cell]

\* a column missing from the sheet
WithoutColumn(cells, col) == [c \in (DOMAIN cells) \ {col} |-> cells[c]]

\* the numeric rows that are varied further: generated zero or positive,
\* processed below or above it
VariedRows ==
    { b \in BaseRows : /\ b[SWGen].v \in {0, MaxVal}
                       /\ b[SWProc].v \in {1, MaxVal}
                       /\ b[SWGap].v = 1
                       /\ b[EW].v = 200 }

\* the sheets the model loads: the first row is all numeric, or has one
\* empty or non-numeric cell, or the sheet lacks one column
RawTables ==
    LET Sheet(name, cells, other) ==
            << [District |-> name,   cells |-> cells],
               [District |-> Blank,  cells |-> other],
               [District |-> Indore, cells |-> other],
               [District |-> NoName, cells |-> other] >>
    IN  { Sheet(n, b, IndoreCells) : n \in {Bhopal, BhopalPadded}, b \in BaseRows }
        \cup
        { Sheet(n, WithCell(b, c, x), IndoreCells) :
              n \in {Bhopal, BhopalPadded}, b \in VariedRows,
              c \in Columns, x \in {NaN, Text} }
        \cup
        { Sheet(n, WithoutColumn(b, c), WithoutColumn(IndoreCells, c)) :
              n \in {Bhopal, BhopalPadded}, b \in VariedRows, c \in Columns }

\* df = df[df["District"].notna() & df["District"].str.strip().ne("")]
LoadTable(raw) ==
    SelectSeq(raw, LAMBDA r : r.District # NoName /\ Strip(r.District) # <<>>)

\* pd.notna(val)
NotNa(val) == val.k \in {"num", "str"}

\* float(val)
ToFloat(val) ==
    IF val.k = "num" THEN [exc |-> "", val |-> Float(val.v)]
    ELSE [exc |-> "ValueError", val |-> Zero]

\* safe(val): float(val) if pd.notna(val) else 0.0
safe(val) ==
    IF NotNa(val) THEN ToFloat(val) ELSE [exc |-> "", val |-> Zero]

\* row.get(col, default)
RowGet(row, col, default) ==
    IF col \in DOMAIN row.cells THEN row.cells[col] ELSE default

\* safe(row.get(col, default)) of the map dashboard
MapRead(row, col, default) == safe(RowGet(row, col, default))

\* safe(row[col]) of the dropdown dashboard: row[col] raises KeyError
DropdownRead(row, col) ==
    IF col \in DOMAIN row.cells THEN safe(row.cells[col])
    ELSE [exc |-> "KeyError", val |-> Zero]

\* a / b
PyDiv(a, b) ==
    IF b.num = 0 THEN [exc |-> "ZeroDivisionError", val |-> Zero]
    ELSE [exc |-> "", val |-> RDiv(a, b)]

\* a slip in the guard: ">= 0" lets generated = 0 into the division
processed_percent_guard_ge(sw_proc, sw_gen) ==
    IF RLeq(Zero, sw_gen)
    THEN LET q == PyDiv(sw_proc, sw_gen)
         IN  [exc |-> q.exc, val |-> RMul(q.val, Float(100))]
    ELSE [exc |-> "", val |-> Zero]

\* a slip in the guard: "!= 0" lets a negative generated into the division
processed_percent_guard_ne(sw_proc, sw_gen) ==
    IF sw_gen # Zero
    THEN LET q == PyDiv(sw_proc, sw_gen)
         IN  [exc |-> q.exc, val |-> RMul(q.val, Float(100))]
    ELSE [exc |-> "", val |-> Zero]

\* (sw_proc / sw_gen * 100) if sw_gen > 0 else 0
processed_percent(sw_proc, sw_gen) ==
    IF RLess(Zero, sw_gen)
    THEN LET q == PyDiv(sw_proc, sw_gen)
         IN  [exc |-> q.exc, val |-> RMul(q.val, Float(100))]
    ELSE [exc |-> "", val |-> Zero]

\* the exception of the first step that raises, "" when none does
RECURSIVE FirstExc(_)
FirstExc(steps) ==
    IF steps = <<>> THEN ""
    ELSE IF Head(steps).exc # "" THEN Head(steps).exc
    ELSE FirstExc(Tail(steps))

---------------------------------------------------------------------------
(***************************************************************************)
(* What the callbacks return: cards, figures and the payload of four       *)
(* outputs.                                                                *)
(***************************************************************************)
\* a plain text
Txt(s) == [pre |-> s, num |-> FALSE, decimals |-> 0, digits |-> 0,
           post |-> "", name |-> <<>>]

\* f"{pre}{x:.kf}{post}"
NumTxt(pre, x, k, post) ==
    [pre |-> pre, num |-> TRUE, decimals |-> k, digits |-> Fmt(x, k).digits,
     post |-> post, name |-> <<>>]

\* the text of a district name as it was given
NameTxt(n) == [pre |-> "", num |-> FALSE, decimals |-> 0, digits |-> 0,
               post |-> "", name |-> n]

\* html.Div(text, ...)
TextDiv(s) == [title |-> "", value |-> Txt(s)]

\* html.Div([html.H4(title), html.P(value)], ...)
Card(title, value) == [title |-> title, value |-> value]

Figure(kind, title, names, x, values, ymax) ==
    [kind |-> kind, title |-> title, names |-> names, x |-> x,
     values |-> values, ymax |-> ymax]

\* empty_figure(title)
empty_figure(title) == Figure("empty", title, <<>>, <<>>, <<>>, Zero)

\* go.Figure()
BlankFigure == Figure("blank", "", <<>>, <<>>, <<>>, Zero)

\* the four outputs of a callback
Payload(cards, figure, row, last) ==
    [cards |-> cards, figure |-> figure, row |-> row, last |-> last]

\* the callback returned; logged is the exception it caught and printed
Returned(payload, locals) ==
    [exc |-> "", payload |-> payload, frame |-> locals, logged |-> ""]

NoFrame == [k |-> "none"]

NoPayload == Payload(<<>>, BlankFigure, <<>>, <<>>)

\* the callback raised: nothing is returned
Raised(exc) ==
    [exc |-> exc, payload |-> NoPayload, frame |-> NoFrame, logged |-> ""]

---------------------------------------------------------------------------
(***************************************************************************)
(* The map-click dashboard.                                                *)
(***************************************************************************)
NoClick      == [k |-> "none",     location |-> <<>>]
NoPoints     == [k |-> "nopoints", location |-> <<>>]
Click(name)  == [k |-> "points",   location |-> name]

\* the return of "if not clickData or 'points' not in clickData"
MapPlaceholder ==
    Payload(<<TextDiv("Click a district on the map")>>,
            empty_figure("Population Forecast"), <<>>,
            empty_figure("Waste Composition"))

\* the return of "if match_row.empty"
MapNoData ==
    Payload(<<TextDiv("No data for selected district")>>,
            empty_figure("Population Forecast"), <<>>,
            empty_figure("Waste Composition"))

\* a slip in the lookup: the names compared as they are spelled
MapMatch_exact(table, district_name) ==
    SelectSeq(table, LAMBDA r : r.District = district_name)

\* df[df["District"].str.lower().str.strip() == district_name.lower().strip()]
MapMatch(table, district_name) ==
    SelectSeq(table, LAMBDA r : Strip(Lower(r.District)) = Strip(Lower(district_name)))

\* proc_pie = min(sw_proc, sw_gen)
proc_pie(sw_proc, sw_gen) == PyMin(sw_proc, sw_gen)

\* gap_pie = max(0, sw_gen - proc_pie)
gap_pie(sw_gen, procPie) == PyMax(Zero, RSub(sw_gen, procPie))

\* proc_label = "Processed (100%)" if sw_proc > sw_gen else "Processed"
proc_label(sw_proc, sw_gen) ==
    IF RLess(sw_gen, sw_proc) THEN "Processed (100%)" ELSE "Processed"

\* ew = safe(...) / 365
ew_per_day(ew_year) == RDiv(ew_year, Float(365))

\* a slip in the composition: the remainder without the max(0, ...)
other_waste_unclamped(sw_gen, pw, cd, ew) ==
    RSub(sw_gen, RAdd(RAdd(pw, cd), ew))

\* other = max(0, sw_gen - (pw + cd + ew))
other_waste(sw_gen, pw, cd, ew) ==
    PyMax(Zero, RSub(sw_gen, RAdd(RAdd(pw, cd), ew)))

\* the body of update_dashboard after a row matched
MapDerive(row, district_name) ==
    LET census  == MapRead(row, Census, Num(0))
        gen     == MapRead(row, SWGen, Num(0))
        proc    == MapRead(row, SWProc, Num(0))
        gap     == MapRead(row, SWGap, Num(0))
        percent == processed_percent(proc.val, gen.val)
        sewage  == MapRead(row, Sewage, Num(0))
        growth  == MapRead(row, Growth, None)
        p2025   == MapRead(row, Pop2025, Num(0))
        p2030   == MapRead(row, Pop2030, Num(0))
        pwr     == MapRead(row, PW, Num(0))
        cdr     == MapRead(row, CD, Num(0))
        ewr     == MapRead(row, EW, Num(0))
        exc     == FirstExc(<<census, gen, proc, gap, percent, sewage, growth,
                              p2025, p2030, pwr, cdr, ewr>>)
        sw_gen  == gen.val
        sw_proc == proc.val
        sw_gap  == gap.val
        procPie == proc_pie(sw_proc, sw_gen)
        gapPie  == gap_pie(sw_gen, procPie)
        label   == proc_label(sw_proc, sw_gen)
        pw      == pwr.val
        cd      == cdr.val
        ew      == ew_per_day(ewr.val)
        other   == other_waste(sw_gen, pw, cd, ew)
        cards   == << Card("Census 2011 Pop",
                           NumTxt("", Float(PyInt(census.val)), 0, "")),
                      Card("SW Generated", NumTxt("", sw_gen, 2, " TPD")),
                      Card("% Waste Processed", NumTxt("", percent.val, 1, "%")),
                      Card("Sewage Gen (MLD)", NumTxt("", sewage.val, 2, "")),
                      Card("Decadal Growth Rate",
                           NumTxt("", RMul(growth.val, Float(100)), 2, "%")),
                      Card("District", NameTxt(district_name)) >>
        pop_forecast ==
            Figure("scatter", "Population Forecast", <<>>,
                   <<"2011", "2025", "2030">>,
                   <<Round(census.val, 3), Round(p2025.val, 2), Round(p2030.val, 2)>>,
                   Zero)
        bar_fig ==
            Figure("bar", "Current Waste Metrics (TPD)",
                   <<NumTxt("Generated: ", sw_gen, 2, " TPD"),
                     NumTxt("Processed: ", sw_proc, 2, " TPD"),
                     NumTxt("Gap: ", sw_gap, 2, " TPD")>>,
                   <<"Generated", "Processed", "Gap">>,
                   <<Round(sw_gen, 2), Round(sw_proc, 2), Round(sw_gap, 2)>>,
                   Zero)
        pie_fig ==
            Figure("pie", "Processed vs Gap (TPD)",
                   <<Txt(label), Txt("Gap")>>, <<>>, <<procPie, gapPie>>, Zero)
        comp_pie ==
            Figure("pie", "Waste Composition (TPD)",
                   <<NumTxt("Plastic Waste: ", pw, 2, " TPD"),
                     NumTxt("C&D: ", cd, 2, " TPD"),
                     NumTxt("E-waste: ", ew, 2, " TPD"),
                     NumTxt("Other: ", other, 2, " TPD")>>,
                   <<>>, <<pw, cd, ew, other>>, Zero)
        locals ==
            [k |-> "locals", row |-> row, sw_gen |-> sw_gen, sw_proc |-> sw_proc,
             sw_gap |-> sw_gap, processed_percent |-> percent.val,
             proc_pie |-> procPie, gap_pie |-> gapPie, proc_label |-> label,
             pw |-> pw, cd |-> cd, ew |-> ew, other |-> other]
    IN  IF exc # "" THEN Raised(exc)
        ELSE Returned(Payload(cards, pop_forecast, <<bar_fig, pie_fig>>, comp_pie),
                      locals)

\* a slip in the callback: no "if match_row.empty", so .iloc[0] raises
MapUpdate_no_empty_check(table, clickData) ==
    IF clickData.k # "points" THEN Returned(MapPlaceholder, NoFrame)
    ELSE LET match_row == MapMatch(table, clickData.location)
         IN  IF match_row = <<>> THEN Raised("IndexError")
             ELSE MapDerive(match_row[1], clickData.location)

\* a slip in the callback: only "if not clickData", so clickData without
\* "points" raises KeyError at clickData["points"]
MapUpdate_no_points_check(table, clickData) ==
    IF clickData.k = "none" THEN Returned(MapPlaceholder, NoFrame)
    ELSE IF clickData.k = "nopoints" THEN Raised("KeyError")
    ELSE LET match_row == MapMatch(table, clickData.location)
         IN  IF match_row = <<>> THEN Returned(MapNoData, NoFrame)
             ELSE MapDerive(match_row[1], clickData.location)

\* update_dashboard(clickData) of the map dashboard
MapUpdate(table, clickData) ==
    IF clickData.k # "points" THEN Returned(MapPlaceholder, NoFrame)
    ELSE LET match_row == MapMatch(table, clickData.location)
         IN  IF match_row = <<>> THEN Returned(MapNoData, NoFrame)
             ELSE MapDerive(match_row[1], clickData.location)

---------------------------------------------------------------------------
(***************************************************************************)
(* The dropdown dashboard.                                                 *)
(***************************************************************************)
NoValue      == [k |-> "none",  location |-> <<>>]
Value(name)  == [k |-> "value", location |-> name]

\* the return of "except Exception as e"
DropdownError ==
    Payload(<<TextDiv("Error loading data")>>, BlankFigure, <<>>, <<>>)

\* df[df["District"] == selected_district]
DropdownMatch(table, selected_district) ==
    SelectSeq(table, LAMBDA r : selected_district.k = "value"
                                /\ r.District = selected_district.location)

\* y_max = max(...) * 1.1
y_max(values) == RMul(MaxOf(values), Rat(11, 10))

\* values=[curr_proc, curr_gap] of current_pie
current_pie_values(curr_gen, curr_proc, curr_gap) == <<curr_proc, curr_gap>>

\* names=["Processed", "Gap"] of current_pie
current_pie_names(curr_gen, curr_proc) == <<Txt("Processed"), Txt("Gap")>>

\* the try block of update_dashboard after .iloc[0] found a row
DropdownDerive(row) ==
    LET census  == DropdownRead(row, Census)
        gen     == DropdownRead(row, SWGen)
        proc    == DropdownRead(row, SWProc)
        gap     == DropdownRead(row, SWGap)
        percent == processed_percent(proc.val, gen.val)
        p2025   == DropdownRead(row, Pop2025)
        p2030   == DropdownRead(row, Pop2030)
        fgen    == DropdownRead(row, SWGen2030)
        fproc   == DropdownRead(row, SWProc2030)
        fgap    == DropdownRead(row, SWGap2030)
        exc     == FirstExc(<<census, gen, proc, gap, percent, p2025, p2030,
                              fgen, fproc, fgap>>)
        sw_gen  == gen.val
        sw_proc == proc.val
        sw_gap  == gap.val
        ymax    == y_max(<<sw_gen, sw_proc, sw_gap, fgen.val, fproc.val, fgap.val>>)
        bars    == <<Txt("Generated"), Txt("Processed"), Txt("Gap")>>
        cards   == << Card("Census 2011 Pop",
                           NumTxt("", Float(PyInt(census.val)), 0, "")),
                      Card("SW Generated", NumTxt("", sw_gen, 2, " TPD")),
                      Card("% Waste Processed", NumTxt("", percent.val, 1, "%")),
                      Card("Gap in Collection", NumTxt("", sw_gap, 2, " TPD")) >>
        trend_fig ==
            Figure("scatter", "Population Forecast", <<Txt("Population")>>,
                   <<"2011", "2025", "2030">>,
                   <<census.val, p2025.val, p2030.val>>, Zero)
        current_fig ==
            Figure("bar", "Current Waste Metrics (TPD)", bars,
                   <<"Current", "Current", "Current">>,
                   <<sw_gen, sw_proc, sw_gap>>, ymax)
        future_fig ==
            Figure("bar", "2030 Waste Metrics (TPD)", bars,
                   <<"2030", "2030", "2030">>,
                   <<fgen.val, fproc.val, fgap.val>>, ymax)
        current_pie ==
            Figure("pie", "Current Waste Processed vs Gap",
                   current_pie_names(sw_gen, sw_proc), <<>>,
                   current_pie_values(sw_gen, sw_proc, sw_gap), Zero)
        future_pie ==
            Figure("pie", "2030 Waste Processed vs Gap",
                   <<Txt("Processed"), Txt("Gap")>>, <<>>,
                   <<fproc.val, fgap.val>>, Zero)
        locals ==
            [k |-> "locals", row |-> row, sw_gen |-> sw_gen, sw_proc |-> sw_proc,
             sw_gap |-> sw_gap, processed_percent |-> percent.val,
             curr_gen |-> sw_gen, curr_proc |-> sw_proc, curr_gap |-> sw_gap,
             fut_gen |-> fgen.val, fut_proc |-> fproc.val, fut_gap |-> fgap.val,
             y_max |-> ymax]
    IN  IF exc # "" THEN Raised(exc)
        ELSE Returned(Payload(cards, trend_fig, <<current_fig, future_fig>>,
                              <<current_pie, future_pie>>),
                      locals)

\* the try block: row = df[...].iloc[0] raises IndexError when nothing matches
DropdownTry(table, selected_district) ==
    LET match == DropdownMatch(table, selected_district)
    IN  IF match = <<>> THEN Raised("IndexError") ELSE DropdownDerive(match[1])

\* except Exception as e: print(...); return the error payload
DropdownCatch(r) ==
    IF r.exc # ""
    THEN [exc |-> "", payload |-> DropdownError, frame |-> NoFrame, logged |-> r.exc]
    ELSE r

\* update_dashboard(selected_district) of the dropdown dashboard
DropdownUpdate(table, selected_district) ==
    DropdownCatch(DropdownTry(table, selected_district))

---------------------------------------------------------------------------
(***************************************************************************)
(* The running dashboard: the page is loaded, then selection events come   *)
(* one at a time, each answered by one call of update_dashboard.           *)
(***************************************************************************)
update_dashboard(v, table, input) ==
    IF v = "map" THEN MapUpdate(table, input) ELSE DropdownUpdate(table, input)

\* the value the input property has when the page is laid out:
\* clickData is unset; the dropdown holds df["District"].iloc[0]
InitialInput(v, table) ==
    IF v = "map" THEN NoClick ELSE Value(table[1].District)

\* what kind of answer a call gave
Kind(o) ==
    IF o.exc # "" THEN "raise"
    ELSE IF o.payload.cards = MapPlaceholder.cards THEN "placeholder"
    ELSE IF o.payload.cards = MapNoData.cards THEN "nodata"
    ELSE IF o.payload.cards = DropdownError.cards THEN "error"
    ELSE IF o.payload.cards = <<>> THEN "none"
    ELSE "data"

NotCalled == [exc |-> "", payload |-> NoPayload, logged |-> ""]

Init ==
    /\ variant \in {"map", "dropdown"}
    /\ \E raw \in RawTables : df = LoadTable(raw)
    /\ rendered = FALSE
    /\ selection = InitialInput(variant, df)
    /\ out = NotCalled
    /\ frame = NoFrame
    /\ prev = "none"

\* one call of the callback with the given input
Call(input) ==
    LET r == update_dashboard(variant, df, input)
    IN  /\ selection' = input
        /\ out' = [exc |-> r.exc, payload |-> r.payload, logged |-> r.logged]
        /\ frame' = r.frame
        /\ prev' = Kind(out)
        /\ UNCHANGED <<variant, df>>

\* the page is laid out and the callback fires with the initial input
PageLoad ==
    /\ ~rendered
    /\ rendered' = TRUE
    /\ Call(selection)

\* a click on a district of the map
MapClick ==
    /\ rendered /\ variant = "map"
    /\ \E name \in Names : Call(Click(name))
    /\ UNCHANGED rendered

\* clickData without a clicked point
MapDeselect ==
    /\ rendered /\ variant = "map"
    /\ \E cd \in {NoClick, NoPoints} : Call(cd)
    /\ UNCHANGED rendered

\* a district chosen in the dropdown
DropdownChoose ==
    /\ rendered /\ variant = "dropdown"
    /\ \E name \in Names : Call(Value(name))
    /\ UNCHANGED rendered

\* the dropdown cleared
DropdownClear ==
    /\ rendered /\ variant = "dropdown"
    /\ Call(NoValue)
    /\ UNCHANGED rendered

Next == PageLoad \/ MapClick \/ MapDeselect \/ DropdownChoose \/ DropdownClear

Spec == Init /\ [][Next]_vars

---------------------------------------------------------------------------
(***************************************************************************)
(* Vocabulary of the properties.                                           *)
(***************************************************************************)
\* two payloads are the same, output by output
Same(a, b) ==
    /\ a.cards = b.cards
    /\ a.figure = b.figure
    /\ a.row = b.row
    /\ a.last = b.last

\* the input names a district
Named(input) == input.k \in {"points", "value"}

\* the input selects nothing
Empty(input) == input.k \in {"none", "nopoints"}

Normal(name) == Strip(Lower(name))

Rows(table) == { table[i] : i \in DOMAIN table }

\* no row of the table has this name, however case and blanks are read
Unknown(name) == \A r \in Rows(df) : Normal(r.District) # Normal(name)

\* the last call went through the whole derivation for a matched row
Derived == rendered /\ frame.k = "locals"

\* the processed-vs-gap pie of the current figures
CurrentPie ==
    IF variant = "map" THEN out.payload.row[2] ELSE out.payload.last[1]

\* the cell of column c in the row the last call matched (None when absent)
CellOf(c) == RowGet(frame.row, c, None)

\* the value of a numeric cell, or 0 for a cell that holds no number
NumberOr0(cell) == IF cell.k = "num" THEN Float(cell.v) ELSE Zero

IsZero(x) == x.num = 0
IsPos(x)  == x.num > 0
IsNeg(x)  == x.num < 0

---------------------------------------------------------------------------
\* C1: for every record with generated >= 0, the two slices of the current
\* processed-vs-gap pie that update_dashboard returns sum exactly to
\* generated (stated for both dashboards, as the claim is).
C1_PieSumsToGenerated ==
    (Derived /\ ~IsNeg(frame.sw_gen))
        => RAdd(CurrentPie.values[1], CurrentPie.values[2]) = frame.sw_gen

\* C1, map dashboard only: the clamped slices do sum to generated
\* (recorded for the divergence; the dropdown dashboard is what breaks C1).
C1_MapPieSumsToGenerated ==
    (Derived /\ variant = "map" /\ ~IsNeg(frame.sw_gen))
        => RAdd(CurrentPie.values[1], CurrentPie.values[2]) = frame.sw_gen

---------------------------------------------------------------------------
---------------------------------------------------------------------------
\* C3 as claimed: percent processed is >= 0 and is 0 exactly when
\* generated <= 0.
C3_Original ==
    Derived =>
        /\ ~IsNeg(frame.processed_percent)
        /\ IsZero(frame.processed_percent) <=> ~IsPos(frame.sw_gen)

\* C3 amended: percent processed is 0 whenever generated <= 0; whenever
\* generated > 0 it has the sign of processed: 0 when processed is 0,
\* positive when processed > 0, negative when processed < 0.
C3_Amended ==
    Derived =>
        /\ ~IsPos(frame.sw_gen) => IsZero(frame.processed_percent)
        /\ IsPos(frame.sw_gen) =>
              /\ IsZero(frame.sw_proc) => IsZero(frame.processed_percent)
              /\ IsPos(frame.sw_proc)  => IsPos(frame.processed_percent)
              /\ IsNeg(frame.sw_proc)  => IsNeg(frame.processed_percent)

\* C3 witness: generated > 0 and processed = 0 give 0 percent.
C3_Witness ==
    /\ Derived
    /\ IsPos(frame.sw_gen)
    /\ CellOf(SWProc) = Num(0)
    /\ IsZero(frame.processed_percent)

---------------------------------------------------------------------------
\* the payload the dashboard returns when nothing is selected
UnselectedPayload ==
    update_dashboard(variant, df, IF variant = "map" THEN NoClick ELSE NoValue).payload

\* C4 as claimed: a selection naming a district absent from the table
\* returns the no-data payload: no exception, nothing derived from a
\* record, and a payload distinct from the Unselected one.
C4_Original ==
    (rendered /\ Named(selection) /\ Unknown(selection.location)) =>
        /\ out.exc = ""
        /\ Kind(out) = "nodata"
        /\ frame = NoFrame
        /\ ~Same(out.payload, UnselectedPayload)

\* C4 amended: such a selection never raises and never returns anything
\* derived from a record; the map dashboard returns the no-data payload,
\* distinct from its placeholder; the dropdown dashboard catches the
\* IndexError and returns the error payload, the same payload an empty
\* selection gets.
C4_Amended ==
    (rendered /\ Named(selection) /\ Unknown(selection.location)) =>
        /\ out.exc = ""
        /\ frame = NoFrame
        /\ variant = "map" =>
              /\ Same(out.payload, MapNoData)
              /\ ~Same(out.payload, UnselectedPayload)
        /\ variant = "dropdown" =>
              /\ Same(out.payload, DropdownError)
              /\ out.logged = "IndexError"
              /\ Same(out.payload, UnselectedPayload)

\* C4 witness: the map dashboard showed a district's data, and the next
\* click, on an unknown district, got the no-data payload.
C4_Witness ==
    /\ rendered /\ variant = "map"
    /\ prev = "data"
    /\ Named(selection) /\ Unknown(selection.location)
    /\ Kind(out) = "nodata"

---------------------------------------------------------------------------
\* C5 as claimed: the Binder starts Unselected, the call at page load and
\* every call with an empty selection return the placeholder payload, and
\* nothing derived from a record.
C5_Original ==
    /\ ~rendered => Empty(selection)
    /\ (rendered /\ prev = "none") => (Kind(out) = "placeholder" /\ frame = NoFrame)
    /\ (rendered /\ Empty(selection)) => (Kind(out) = "placeholder" /\ frame = NoFrame)

\* C5 amended: the map dashboard starts Unselected, leaves it only by a
\* click after the page load, and returns the placeholder payload for the
\* page load and for every empty selection.  The dropdown dashboard starts
\* with the table's first district selected and is called with it at page
\* load; for an empty selection it returns the error payload.  Neither
\* returns anything derived from a record for an empty selection.
C5_Amended ==
    /\ variant = "map" =>
          /\ ~rendered => selection = NoClick
          /\ (rendered /\ prev = "none") => selection = NoClick
          /\ (rendered /\ Empty(selection)) =>
                (Same(out.payload, MapPlaceholder) /\ out.exc = "" /\ frame = NoFrame)
    /\ variant = "dropdown" =>
          /\ ~rendered => selection = Value(df[1].District)
          /\ (rendered /\ prev = "none") => selection = Value(df[1].District)
          /\ (rendered /\ Empty(selection)) =>
                (Same(out.payload, DropdownError) /\ out.exc = "" /\ frame = NoFrame)

\* C5 witness: the map dashboard showed a district's data and then got
\* clickData without a point: it is back to the placeholder.
C5_Witness ==
    /\ rendered /\ variant = "map"
    /\ prev = "data"
    /\ selection = NoPoints
    /\ Kind(out) = "placeholder"

---------------------------------------------------------------------------
\* C6: every call returns a payload and none lets an exception out; in the
\* dropdown dashboard an exception inside the derivation gives the error
\* payload.
C6_NeverRaises ==
    rendered =>
        /\ out.exc = ""
        /\ (variant = "dropdown" /\ out.logged # "") => Same(out.payload, DropdownError)

---------------------------------------------------------------------------
\* the row the selection picks, by the dashboard's own lookup
Picked ==
    IF variant = "map" THEN MapMatch(df, selection.location)
    ELSE DropdownMatch(df, selection)

\* C7: for a matched district, a source field that is missing (absent
\* column, empty cell) or non-numeric counts as 0.0: the full payload is
\* still derived and no error arises.
C7_MissingCountsAsZero ==
    (rendered /\ Named(selection) /\ Picked # <<>>) =>
        /\ out.exc = "" /\ out.logged = ""
        /\ frame.k = "locals"
        /\ frame.sw_gen  = NumberOr0(RowGet(Picked[1], SWGen, None))
        /\ frame.sw_proc = NumberOr0(RowGet(Picked[1], SWProc, None))
        /\ frame.sw_gap  = NumberOr0(RowGet(Picked[1], SWGap, None))

---------------------------------------------------------------------------
\* what the dashboard answers to the other spelling n of the selection
Respelled(n) ==
    update_dashboard(variant, df, [selection EXCEPT !.location = n])

\* the cards of a payload without the District card, which shows the
\* selection as it was spelled
DataCards(payload) ==
    SelectSeq(payload.cards, LAMBDA c : c.title # "District")

\* two payloads are the same but for the name on the District card
SameButName(a, b) ==
    /\ DataCards(a) = DataCards(b)
    /\ Len(a.cards) = Len(b.cards)
    /\ a.figure = b.figure
    /\ a.row = b.row
    /\ a.last = b.last

\* C8 as claimed: two selection names that are equal after lower-casing
\* and trimming select the same record and yield the same payload.
C8_Original ==
    (rendered /\ Named(selection)) =>
        \A n \in Names :
            Normal(n) = Normal(selection.location) =>
                /\ Respelled(n).exc = out.exc
                /\ Respelled(n).frame = frame
                /\ Same(Respelled(n).payload, out.payload)

\* C8 amended: in the map dashboard two such names select the same record
\* and yield the same payload except for the District card, which shows
\* the name as it was given; the dropdown dashboard matches the name
\* exactly, and a name that is not literally the District of a row gets
\* the error payload.
C8_Amended ==
    (rendered /\ Named(selection)) =>
        /\ variant = "map" =>
              \A n \in Names :
                  Normal(n) = Normal(selection.location) =>
                      /\ Respelled(n).exc = out.exc
                      /\ Respelled(n).frame = frame
                      /\ SameButName(Respelled(n).payload, out.payload)
                      /\ frame.k = "locals" =>
                            /\ Normal(frame.row.District) = Normal(n)
                            /\ out.payload.cards[6].value = NameTxt(selection.location)
                            /\ Respelled(n).payload.cards[6].value = NameTxt(n)
        /\ variant = "dropdown" =>
              /\ frame.k = "locals" => frame.row.District = selection.location
              /\ (\A r \in Rows(df) : r.District # selection.location) =>
                    (Same(out.payload, DropdownError) /\ out.logged = "IndexError")

\* C8 witness: the table spells the district "Bhopal", the click names it
\* " bhopal ", and the map dashboard derived the metrics of that row.
C8_Witness ==
    /\ rendered /\ variant = "map"
    /\ selection = Click(BhopalPadded)
    /\ df[1].District = Bhopal
    /\ frame.k = "locals"
    /\ frame.row = df[1]

---------------------------------------------------------------------------
\* the waste-composition pie of the map dashboard
CompPie == out.payload.last

\* C9: the "other" slice of the waste-composition pie is
\* max(0, generated - (plastic + C&D + e-waste/365)) and never negative.
C9_OtherNonNegative ==
    (Derived /\ variant = "map") =>
        LET gen   == NumberOr0(CellOf(SWGen))
            pw    == NumberOr0(CellOf(PW))
            cd    == NumberOr0(CellOf(CD))
            ewy   == NumberOr0(CellOf(EW))
            \* 365 * (generated - (plastic + C&D + e-waste/365))
            rest  == 365 * (gen.num - pw.num - cd.num) - ewy.num
            other == CompPie.values[4]
        IN  /\ ~IsNeg(other)
            /\ other = frame.other
            /\ IF rest > 0 THEN RMul(other, Float(365)) = Float(rest)
               ELSE other = Zero

\* C9 witness: plastic, C&D and e-waste together exceed generated, and the
\* "other" slice is 0.
C9_Witness ==
    /\ Derived /\ variant = "map"
    /\ RLess(frame.sw_gen, RAdd(RAdd(frame.pw, frame.cd), frame.ew))
    /\ IsPos(frame.sw_gen)
    /\ CompPie.values[4] = Zero

---------------------------------------------------------------------------
\* C10: when processed exceeds generated the processed-vs-gap pie shows
\* processed = generated, labelled "Processed (100%)", and gap = 0;
\* otherwise the slice is labelled "Processed" (stated for both
\* dashboards, as the claim is).
C10_ClampAndRelabel ==
    Derived =>
        /\ RLess(frame.sw_gen, frame.sw_proc) =>
              /\ CurrentPie.values = <<frame.sw_gen, Zero>>
              /\ CurrentPie.names[1] = Txt("Processed (100%)")
        /\ ~RLess(frame.sw_gen, frame.sw_proc) =>
              CurrentPie.names[1] = Txt("Processed")

\* C10, map dashboard only (recorded for the divergence).
C10_MapClampAndRelabel ==
    (Derived /\ variant = "map") =>
        /\ RLess(frame.sw_gen, frame.sw_proc) =>
              /\ CurrentPie.values = <<frame.sw_gen, Zero>>
              /\ CurrentPie.names[1] = Txt("Processed (100%)")
        /\ ~RLess(frame.sw_gen, frame.sw_proc) =>
              CurrentPie.names[1] = Txt("Processed")

====
